---- MODULE Spec2Model ----
(***************************************************************************)
(* Model of the cowboy-protocol command codec: the command catalogue       *)
(* (cmd.rs), the checksum and packetizer (utils.rs), the write-mode        *)
(* derive (cowboy-proc-macros) and the bounded value types (types.rs).     *)
(* The library is stateless; the state of the model is the call in         *)
(* progress: the command handed to the encoder with what came back, the    *)
(* bounded value under construction with the raw value exchanged with the  *)
(* bike, and the payload handed to checksum with the sums returned.        *)
(*                                                                         *)
(* Arrays keep the source's 0-based indices: a [u8; 9] is a function on    *)
(* 0..8, a [u8; 11] a function on 0..10.                                   *)
(***************************************************************************)
EXTENDS Integers, Sequences, FiniteSets, TLC

VARIABLES command, result, cmdMode, fw, arg, bike, back, hall,
          payload, sumFirst, sumAgain, flip, sumFlip

vars == <<command, result, cmdMode, fw, arg, bike, back, hall,
          payload, sumFirst, sumAgain, flip, sumFlip>>

cmdVars == <<command, result, cmdMode>>

typeVars == <<fw, arg, bike, back, hall>>

sumVars == <<payload, sumFirst, sumAgain, flip, sumFlip>>

(***************************************************************************)
(* Integer widths and casts                                                *)
(***************************************************************************)
U8 == 0..255

U16 == 0..65535

\* Largest CowboyDfcCmd::Read offset the model draws (the source's is a u32).
MaxOffset == 3

\* Largest ReadRegister address the model draws (the source's is a u16).
MaxRegister == 1000

\* `b as u8`, `b as u16` of a bool
bool_as_int(b) == IF b THEN 1 ELSE 0

RECURSIVE Pow2(_)
Pow2(n) == IF n = 0 THEN 1 ELSE 2 * Pow2(n - 1)

\* bit i of a ^ b, in place, where w = 2^i
XorBit(a, b, w) == ((((a \div w) % 2) + ((b \div w) % 2)) % 2) * w

\* a ^ b on u16
BitXor(a, b) ==
    XorBit(a, b, 1) + XorBit(a, b, 2) + XorBit(a, b, 4) + XorBit(a, b, 8)
    + XorBit(a, b, 16) + XorBit(a, b, 32) + XorBit(a, b, 64) + XorBit(a, b, 128)
    + XorBit(a, b, 256) + XorBit(a, b, 512) + XorBit(a, b, 1024)
    + XorBit(a, b, 2048) + XorBit(a, b, 4096) + XorBit(a, b, 8192)
    + XorBit(a, b, 16384) + XorBit(a, b, 32768)

\* A Rust array literal, indexed from 0: the first k elements of the tuple t
RECURSIVE ArrUpTo(_, _)
ArrUpTo(t, k) ==
    IF k = 1 THEN (0 :> t[1]) ELSE ArrUpTo(t, k - 1) @@ ((k - 1) :> t[k])

Arr(t) == ArrUpTo(t, Len(t))

None == [tag |-> "None"]

\* Option::Some, for what the caller holds
Some(v) == [tag |-> "Some", v |-> v]

Ok(v) == [tag |-> "Ok", v |-> v]

Err(e) == [tag |-> "Err", e |-> e]

\* a panic unwinding out of the call
Panic == [tag |-> "Panic"]

(***************************************************************************)
(* utils.rs                                                                *)
(***************************************************************************)
\* write_value with the low byte first
write_value_little_endian(cmd, value) ==
    [cmd EXCEPT ![7] = value % 256, ![8] = (value \div 256) % 256]

write_value(cmd, value) ==
    [cmd EXCEPT ![7] = (value \div 256) % 256, ![8] = value % 256]

\* the inner `for _ in 0..8` of checksum: i2 after n more rounds
checksum_bits[i2 \in U16, n \in 0..8] ==
    IF n = 0 THEN i2
    ELSE LET i4 == i2 % 2
             sh == i2 \div 2
         IN  checksum_bits[IF i4 # 0 THEN BitXor(sh, 40961) ELSE sh, n - 1]

\* checksum started from 0 instead of u16::MAX
RECURSIVE checksum_bytes_zero_init(_, _)
checksum_bytes_zero_init(msg, k) ==
    IF k = 0 THEN 0
    ELSE checksum_bits[BitXor(checksum_bytes_zero_init(msg, k - 1), msg[k - 1]), 8]

\* the outer `for &b in msg` of checksum: i2 after the first k bytes
RECURSIVE checksum_bytes(_, _)
checksum_bytes(msg, k) ==
    IF k = 0 THEN 65535
    ELSE checksum_bits[BitXor(checksum_bytes(msg, k - 1), msg[k - 1]), 8]

\* checksum that stops before the last byte of msg
checksum_first_eight(msg) ==
    LET i2 == checksum_bytes(msg, 8)
    IN  Arr(<<i2 % 256, (i2 \div 256) % 256>>)

checksum(msg) ==
    LET i2 == checksum_bytes(msg, 9)
    IN  Arr(<<i2 % 256, (i2 \div 256) % 256>>)

\* packetize with the checksum's high byte first
packetize_high_first(cmd) ==
    LET sum == checksum(cmd)
    IN  Arr(<<cmd[0], cmd[1], cmd[2], cmd[3], cmd[4], cmd[5], cmd[6], cmd[7],
              cmd[8], sum[1], sum[0]>>)

packetize(cmd) ==
    LET sum == checksum(cmd)
    IN  Arr(<<cmd[0], cmd[1], cmd[2], cmd[3], cmd[4], cmd[5], cmd[6], cmd[7],
              cmd[8], sum[0], sum[1]>>)

(***************************************************************************)
(* f32 arithmetic, as far as types.rs uses it.  An f32 is [m, e], the      *)
(* value m * 2^e with m < 2^24; every operation rounds its exact result to *)
(* nearest, ties to even.                                                  *)
(***************************************************************************)
F32(m, e) == [m |-> m, e |-> e]

\* the quotient bits of n / d by long division: q and the remainder r after
\* k doublings, carried on until q has 25 bits (24 and the guard bit)
F32DivBits[q \in 0..33554431, r \in 0..16777215, d \in 1..16777215, k \in 0..64] ==
    IF q >= 16777216 THEN [q |-> q, r |-> r, k |-> k]
    ELSE IF 2 * r >= d THEN F32DivBits[2 * q + 1, 2 * r - d, d, k + 1]
         ELSE F32DivBits[2 * q, 2 * r, d, k + 1]

\* n / d rounded to f32, for integers 0 <= n < 2^24 and 0 < d < 2^24
F32Ratio(n, d) ==
    IF n = 0 THEN F32(0, 0)
    ELSE LET b == F32DivBits[n \div d, n % d, d, 0]
             m == b.q \div 2
             up == (b.q % 2 = 1) /\ (b.r # 0 \/ m % 2 = 1)
         IN  F32(IF up THEN m + 1 ELSE m, 1 - b.k)

\* x / y rounded to f32, x an integer below 2^24
F32DivInt(x, y) ==
    LET r == F32Ratio(x, y.m)
    IN  F32(r.m, r.e - y.e)

\* the number of bits of n
BitLen[n \in 0..16777215] == IF n = 0 THEN 0 ELSE 1 + BitLen[n \div 2]

\* x * y rounded to f32, x an integer below 2^8.  The exact product is
\* a * 2^12 + b, kept in two halves.
F32MulInt(x, y) ==
    LET hi == y.m \div 4096
        lo == y.m % 4096
        a == x * hi + ((x * lo) \div 4096)
        b == (x * lo) % 4096
        d == BitLen[a] - 12
    IN  IF d <= 0 THEN F32(a * 4096 + b, y.e)
        ELSE LET m == a * Pow2(12 - d) + (b \div Pow2(d))
                 rest == b % Pow2(d)
                 half == Pow2(d - 1)
                 up == rest > half \/ (rest = half /\ m % 2 = 1)
             IN  F32(IF up THEN m + 1 ELSE m, y.e + d)

\* f32::ceil and f32::floor of a value that is not negative, as an integer
F32Ceil(x) ==
    IF x.e >= 0 THEN x.m * Pow2(x.e)
    ELSE (x.m + Pow2(0 - x.e) - 1) \div Pow2(0 - x.e)

F32Floor(x) ==
    IF x.e >= 0 THEN x.m * Pow2(x.e) ELSE x.m \div Pow2(0 - x.e)

\* `as u8` and `as u16` of a float saturate
as_u8(v) == IF v > 255 THEN 255 ELSE IF v < 0 THEN 0 ELSE v

as_u16(v) == IF v > 65535 THEN 65535 ELSE IF v < 0 THEN 0 ELSE v

(***************************************************************************)
(* types.rs                                                                *)
(***************************************************************************)
\* the limit of the earlier snapshot, types/field_weakening.rs
MAX_FIELD_WEAKENING_0x19 == 25

MAX_FIELD_WEAKENING == 100

MAX_HALL_INTERPOLATION == 25

\* the f32 nearest to the literal 40.96 = 4096 / 100
ASI_FIELD_WEAKENING_MULTIPLIER == F32Ratio(4096, 100)

InvalidRange(start, end) == [error |-> "InvalidRange", start |-> start, end |-> end]

\* bounded!(value, max): leaves the constructor with InvalidRange{0, max}
\* when the value is above max
bounded(value, max) ==
    IF value > max THEN Err(InvalidRange(0, max)) ELSE Ok(value)

FieldWeakening_new(weakening) ==
    LET checked == bounded(weakening, MAX_FIELD_WEAKENING)
    IN  IF checked.tag = "Err" THEN checked ELSE Ok([weakening |-> weakening])

\* new_from_bike rounding down
new_from_bike_floor(weakening) ==
    [weakening |->
        as_u8(F32Floor(F32DivInt(weakening, ASI_FIELD_WEAKENING_MULTIPLIER)))]

FieldWeakening_new_from_bike(weakening) ==
    [weakening |->
        as_u8(F32Ceil(F32DivInt(weakening, ASI_FIELD_WEAKENING_MULTIPLIER)))]

FieldWeakening_weakening(self) == self.weakening

\* weakening_for_bike without the multiplier
weakening_for_bike_unscaled(self) == self.weakening

FieldWeakening_weakening_for_bike(self) ==
    as_u16(F32Floor(F32MulInt(self.weakening, ASI_FIELD_WEAKENING_MULTIPLIER)))

HallInterpolation_new(interpolation) ==
    IF interpolation > MAX_HALL_INTERPOLATION
    THEN Err(InvalidRange(0, MAX_HALL_INTERPOLATION))
    ELSE Ok([interpolation |-> interpolation])

HallInterpolation_interpolation(self) == self.interpolation

(***************************************************************************)
(* mode.rs and the Command derive (cowboy-proc-macros)                     *)
(***************************************************************************)
\* from_str with the two modes exchanged
CmdMode_from_str_exchanged(s) ==
    CASE s = "write" -> Ok("WriteWithResponse")
      [] s = "write_with_response" -> Ok("WriteOnly")
      [] OTHER -> Err("invalid mode")

CmdMode_from_str(s) ==
    CASE s = "write" -> Ok("WriteOnly")
      [] s = "write_with_response" -> Ok("WriteWithResponse")
      [] OTHER -> Err("invalid mode")

\* Result::unwrap
unwrap(r) == IF r.tag = "Ok" THEN r.v ELSE Panic

\* the #[mode(...)] attribute of each SettingsWriteCmd variant, as
\* parse_mode_attribute reads it
mode_attribute(variant) ==
    CASE variant = "SetLight" -> "write"
      [] variant = "SetAutoLock" -> "write_with_response"
      [] variant = "ReadAutoLock" -> "write"
      [] variant = "SetMaxAssistedSpeed" -> "write_with_response"
      [] variant = "ReadMaxAssistedSpeed" -> "write"
      [] variant = "SetFieldWeakening" -> "write_with_response"
      [] variant = "ReadFieldWeakening" -> "write"
      [] variant = "SetHallInterpolation" -> "write_with_response"
      [] variant = "ReadHallInterpolation" -> "write"
      [] variant = "SetTorqueGain" -> "write_with_response"
      [] variant = "ReadTorqueGain" -> "write"
      [] variant = "ReadRegister" -> "write"
      [] variant = "SetMotorTorqueMode" -> "write_with_response"
      [] variant = "ReadMotorTorqueMode" -> "write"
      [] variant = "WriteFlash" -> "write"
      [] variant = "CloseFlash" -> "write"

\* the generated SettingsWriteCmd::mode: one match arm per variant, the
\* payload matched by `(..)`
mode(cmd) == unwrap(CmdMode_from_str(mode_attribute(cmd.variant)))

(***************************************************************************)
(* Domain values (types.rs) and the commands (cmd.rs)                      *)
(***************************************************************************)
Speed == [value : U8, unit : {"Kmh"}]

Speed_default == [value |-> 25, unit |-> "Kmh"]

TorqueGain == [gain : U8, unit : {"Nm"}]

TorqueGain_default == [gain |-> 0, unit |-> "Nm"]

TorqueMode == [speed_limit : BOOLEAN]

TorqueMode_default == [speed_limit |-> FALSE]

\* the field is private: new, Default and new_from_bike are the ways in, and
\* new_from_bike ends in `as u8`
FieldWeakening == [weakening : U8]

FieldWeakening_default == [weakening |-> 0]

HallInterpolation == [interpolation : 0..MAX_HALL_INTERPOLATION]

HallInterpolation_default == [interpolation |-> 0]

Unit(e, n) == [enum |-> e, variant |-> n]

With(e, n, S) == [enum : {e}, variant : {n}, value : S]

SettingsWriteCmd ==
    With("SettingsWriteCmd", "SetLight", BOOLEAN)
    \cup With("SettingsWriteCmd", "SetAutoLock", BOOLEAN)
    \cup {Unit("SettingsWriteCmd", "ReadAutoLock")}
    \cup With("SettingsWriteCmd", "SetMaxAssistedSpeed", Speed)
    \cup {Unit("SettingsWriteCmd", "ReadMaxAssistedSpeed")}
    \cup With("SettingsWriteCmd", "SetFieldWeakening", FieldWeakening)
    \cup {Unit("SettingsWriteCmd", "ReadFieldWeakening")}
    \cup With("SettingsWriteCmd", "SetHallInterpolation", HallInterpolation)
    \cup {Unit("SettingsWriteCmd", "ReadHallInterpolation")}
    \cup With("SettingsWriteCmd", "SetTorqueGain", TorqueGain)
    \cup {Unit("SettingsWriteCmd", "ReadTorqueGain")}
    \cup With("SettingsWriteCmd", "ReadRegister", 0..MaxRegister)
    \cup With("SettingsWriteCmd", "SetMotorTorqueMode", TorqueMode)
    \cup {Unit("SettingsWriteCmd", "ReadMotorTorqueMode")}
    \cup {Unit("SettingsWriteCmd", "WriteFlash")}
    \cup {Unit("SettingsWriteCmd", "CloseFlash")}

CowboyLockCmd ==
    With("CowboyLockCmd", "SetLock", BOOLEAN)
    \cup {Unit("CowboyLockCmd", "ReadLock")}

CowboyDashboardCmd == {Unit("CowboyDashboardCmd", "Read")}

CowboyDfcCmd == With("CowboyDfcCmd", "Read", 0..MaxOffset)

CowboyTripCmd == {Unit("CowboyTripCmd", "Read")}

\* u32::to_le_bytes
to_le_bytes(x) ==
    Arr(<<x % 256, (x \div 256) % 256, (x \div 65536) % 256,
          (x \div 16777216) % 256>>)

Size(a) == Cardinality(DOMAIN a)

\* slice::copy_from_slice panics when the two lengths differ
copy_from_slice(dst, src) == IF Size(dst) # Size(src) THEN Panic ELSE Ok(src)

\* the [u8; 9] that cmd! hands to packetize: cmd!(command) is
\* packetize(&command), cmd!(command, value) is
\* packetize(&write_value(command, value))
instruction_CowboyLockCmd(c) ==
    CASE c.variant = "SetLock" ->
           Arr(<<bool_as_int(c.value), 0, 0, 0, 0, 0, 0, 0, 0>>)

TryFrom_CowboyLockCmd(c) ==
    CASE c.variant = "SetLock" -> Ok(packetize(instruction_CowboyLockCmd(c)))
      [] c.variant = "ReadLock" -> Err("StrictlyRead")

TryFrom_CowboyDashboardCmd(c) ==
    CASE c.variant = "Read" -> Err("StrictlyRead")

TryFrom_CowboyDfcCmd(c) ==
    CASE c.variant = "Read" ->
           LET base == [i \in 0..10 |-> 0]
               copied == copy_from_slice(base, to_le_bytes(c.value))
           IN  IF copied.tag = "Panic" THEN Panic ELSE Ok(copied.v)

TryFrom_CowboyTripCmd(c) ==
    CASE c.variant = "Read" -> Err("StrictlyRead")

instruction_SettingsWriteCmd(c) ==
    CASE c.variant = "SetLight" ->
           Arr(<<10, 16, 0, 1, 0, 1, 2, 0, bool_as_int(c.value)>>)
      [] c.variant = "SetMaxAssistedSpeed" ->
           write_value(Arr(<<10, 16, 0, 4, 0, 1, 2, 0, 30>>), c.value.value)
      [] c.variant = "ReadMaxAssistedSpeed" ->
           Arr(<<10, 3, 0, 4, 0, 1, 0, 0, 0>>)
      [] c.variant = "SetAutoLock" ->
           write_value(Arr(<<10, 16, 0, 0, 0, 1, 2, 0, 0>>), bool_as_int(c.value))
      [] c.variant = "ReadAutoLock" ->
           Arr(<<10, 3, 0, 0, 0, 1, 0, 0, 0>>)
      [] c.variant = "SetFieldWeakening" ->
           write_value(Arr(<<1, 16, 0, 129, 0, 1, 2, 0, 0>>), FieldWeakening_weakening(c.value))
      [] c.variant = "ReadFieldWeakening" ->
           Arr(<<1, 3, 0, 129, 0, 1, 0, 0, 0>>)
      [] c.variant = "ReadHallInterpolation" ->
           Arr(<<1, 3, 0, 128, 0, 1, 0, 0, 0>>)
      [] c.variant = "SetHallInterpolation" ->
           write_value(Arr(<<1, 16, 0, 128, 0, 1, 2, 0, 0>>), HallInterpolation_interpolation(c.value))
      [] c.variant = "ReadTorqueGain" ->
           Arr(<<1, 3, 0, 179, 0, 1, 0, 0, 0>>)
      [] c.variant = "SetTorqueGain" ->
           write_value(Arr(<<1, 16, 0, 179, 0, 1, 2, 0, 0>>), c.value.gain)
      [] c.variant = "ReadRegister" ->
           write_value(Arr(<<1, 3, 0, 0, 0, 1, 0, 0, 0>>), c.value)
      [] c.variant = "ReadMotorTorqueMode" ->
           Arr(<<1, 3, 0, 11, 0, 1, 0, 0, 0>>)
      [] c.variant = "SetMotorTorqueMode" ->
           Arr(<<1, 16, 0, 11, 0, 1, 2, 0, bool_as_int(c.value.speed_limit) + 1>>)
      [] c.variant = "WriteFlash" ->
           Arr(<<1, 16, 1, 255, 0, 1, 2, 127, 255>>)
      [] c.variant = "CloseFlash" ->
           Arr(<<1, 16, 1, 255, 0, 1, 2, 0, 0>>)

TryFrom_SettingsWriteCmd(c) == Ok(packetize(instruction_SettingsWriteCmd(c)))

(***************************************************************************)
(* The encoder's calls: from rest the caller hands over a command and gets *)
(* the packet, the error or the write mode back, then drops them.          *)
(***************************************************************************)
InitCmd == command = None /\ result = None /\ cmdMode = None

InitTypes == fw = None /\ arg = None /\ bike = None /\ back = None /\ hall = None

InitSum ==
    payload = None /\ sumFirst = None /\ sumAgain = None /\ flip = None /\ sumFlip = None

Init == InitCmd /\ InitTypes /\ InitSum

EncodeSettingsWrite ==
    /\ command = None
    /\ \E c \in SettingsWriteCmd :
           /\ command' = c
           /\ result' = TryFrom_SettingsWriteCmd(c)
           /\ cmdMode' = None
           /\ UNCHANGED <<typeVars, sumVars>>

SettingsWriteMode ==
    /\ command = None
    /\ \E c \in SettingsWriteCmd :
           /\ command' = c
           /\ result' = None
           /\ cmdMode' = Some(mode(c))
           /\ UNCHANGED <<typeVars, sumVars>>

EncodeLock ==
    /\ command = None
    /\ \E c \in CowboyLockCmd :
           /\ command' = c
           /\ result' = TryFrom_CowboyLockCmd(c)
           /\ cmdMode' = None
           /\ UNCHANGED <<typeVars, sumVars>>

EncodeDashboard ==
    /\ command = None
    /\ \E c \in CowboyDashboardCmd :
           /\ command' = c
           /\ result' = TryFrom_CowboyDashboardCmd(c)
           /\ cmdMode' = None
           /\ UNCHANGED <<typeVars, sumVars>>

EncodeDfc ==
    /\ command = None
    /\ \E c \in CowboyDfcCmd :
           /\ command' = c
           /\ result' = TryFrom_CowboyDfcCmd(c)
           /\ cmdMode' = None
           /\ UNCHANGED <<typeVars, sumVars>>

EncodeTrip ==
    /\ command = None
    /\ \E c \in CowboyTripCmd :
           /\ command' = c
           /\ result' = TryFrom_CowboyTripCmd(c)
           /\ cmdMode' = None
           /\ UNCHANGED <<typeVars, sumVars>>

\* the command is consumed by the conversion; the caller drops what came back
Return ==
    /\ command # None
    /\ command' = None
    /\ result' = None
    /\ cmdMode' = None
    /\ UNCHANGED <<typeVars, sumVars>>

Next ==
    \/ EncodeSettingsWrite
    \/ SettingsWriteMode
    \/ EncodeLock
    \/ EncodeDashboard
    \/ EncodeDfc
    \/ EncodeTrip
    \/ Return

Spec == Init /\ [][Next]_vars

(***************************************************************************)
(* Properties of the encoder (under Spec)                                  *)
(***************************************************************************)
IsVariant(c, e, n) == c.enum = e /\ c.variant = n

\* an encode call has returned
Encoded == result # None

StrictlyReadCmd(c) ==
    \/ IsVariant(c, "CowboyLockCmd", "ReadLock")
    \/ IsVariant(c, "CowboyDashboardCmd", "Read")
    \/ IsVariant(c, "CowboyTripCmd", "Read")
    \/ IsVariant(c, "CowboyDfcCmd", "Read")

Instruction(c) ==
    IF c.enum = "CowboyLockCmd" THEN instruction_CowboyLockCmd(c)
    ELSE instruction_SettingsWriteCmd(c)

\* C1: every command that is not strictly-read encodes successfully to 11
\* bytes: bytes 0..8 are the variant's 9-byte payload, byte 9 is the low and
\* byte 10 the high byte of the checksum of bytes 0..8.
C1_PacketIsPayloadThenChecksum ==
    (Encoded /\ ~StrictlyReadCmd(command)) =>
        /\ result.tag = "Ok"
        /\ DOMAIN result.v = 0..10
        /\ \A i \in 0..8 : result.v[i] = Instruction(command)[i]
        /\ LET i2 == checksum_bytes(result.v, 9)
           IN  result.v[9] = i2 % 256 /\ result.v[10] = i2 \div 256

C1_Witness ==
    /\ Encoded
    /\ IsVariant(command, "SettingsWriteCmd", "WriteFlash")
    /\ result.tag = "Ok"
    /\ result.v[7] = 127
    /\ result.v[9] = 194
    /\ result.v[10] = 239

\* C2: encoding a strictly-read-only command (ReadLock, dashboard Read, trip
\* Read, fitness Read(offset)) returns Err(StrictlyRead): never a packet,
\* never a panic.
C2_StrictlyReadIsAnError ==
    (Encoded /\ StrictlyReadCmd(command)) => result = Err("StrictlyRead")

\* the checksum bytes the tests and the captures give for a command
C3_Vectors ==
    << <<[enum |-> "SettingsWriteCmd", variant |-> "SetAutoLock", value |-> FALSE], 213, 96>>,
      <<[enum |-> "SettingsWriteCmd", variant |-> "SetAutoLock", value |-> TRUE], 20, 160>>,
      <<[enum |-> "SettingsWriteCmd", variant |-> "ReadAutoLock"], 53, 185>>,
      <<[enum |-> "SettingsWriteCmd", variant |-> "WriteFlash"], 194, 239>>,
      <<[enum |-> "SettingsWriteCmd", variant |-> "CloseFlash"], 162, 159>>,
      <<[enum |-> "SettingsWriteCmd", variant |-> "SetLight", value |-> TRUE], 21, 113>>,
      <<[enum |-> "SettingsWriteCmd", variant |-> "SetLight", value |-> FALSE], 212, 177>>,
      <<[enum |-> "SettingsWriteCmd", variant |-> "SetMaxAssistedSpeed",
         value |-> [value |-> 25, unit |-> "Kmh"]], 21, 46>>,
      <<[enum |-> "SettingsWriteCmd", variant |-> "ReadMaxAssistedSpeed"], 52, 61>>,
      <<[enum |-> "SettingsWriteCmd", variant |-> "SetFieldWeakening",
         value |-> [weakening |-> 0]], 184, 65>>,
      <<[enum |-> "SettingsWriteCmd", variant |-> "ReadFieldWeakening"], 88, 152>>,
      <<[enum |-> "SettingsWriteCmd", variant |-> "ReadHallInterpolation"], 89, 73>>,
      <<[enum |-> "SettingsWriteCmd", variant |-> "SetHallInterpolation",
         value |-> [interpolation |-> 0]], 185, 144>>,
      <<[enum |-> "SettingsWriteCmd", variant |-> "ReadTorqueGain"], 92, 138>>,
      <<[enum |-> "SettingsWriteCmd", variant |-> "SetTorqueGain",
         value |-> [gain |-> 0, unit |-> "Nm"]], 188, 83>>,
      <<[enum |-> "SettingsWriteCmd", variant |-> "ReadRegister", value |-> 0], 70, 137>>,
      <<[enum |-> "SettingsWriteCmd", variant |-> "ReadMotorTorqueMode"], 71, 242>>,
      <<[enum |-> "SettingsWriteCmd", variant |-> "SetMotorTorqueMode",
         value |-> [speed_limit |-> FALSE]], 102, 235>>,
      <<[enum |-> "CowboyLockCmd", variant |-> "SetLock", value |-> FALSE], 10, 240>>,
      <<[enum |-> "CowboyLockCmd", variant |-> "SetLock", value |-> TRUE], 7, 96>> >>

SameCmd(c, d) == c.enum = d.enum /\ c.variant = d.variant /\ c = d

\* C3: bytes 9 and 10 of each listed command's packet are the captured
\* checksum bytes; the checksum is the reflected CRC-16 with initial value
\* 0xFFFF and polynomial constant 0xA001 (CRC-16/MODBUS, whose value over the
\* nine bytes "123456789" is 0x4B37).
C3_KnownChecksums ==
    /\ checksum(Arr(<<49, 50, 51, 52, 53, 54, 55, 56, 57>>)) = Arr(<<55, 75>>)
    /\ Encoded =>
           \A n \in 1..Len(C3_Vectors) :
               SameCmd(command, C3_Vectors[n][1]) =>
                   /\ result.tag = "Ok"
                   /\ result.v[9] = C3_Vectors[n][2]
                   /\ result.v[10] = C3_Vectors[n][3]

C3_Witness ==
    /\ Encoded
    /\ IsVariant(command, "CowboyLockCmd", "SetLock")
    /\ command.value
    /\ result.tag = "Ok"
    /\ result.v[9] = 7
    /\ result.v[10] = 96

\* C8: SettingsWriteCmd::mode depends on the variant only: the read queries,
\* SetLight, WriteFlash and CloseFlash are WriteOnly, the configuration writes
\* are WriteWithResponse.
C8_WriteOnly ==
    {"ReadAutoLock", "ReadMaxAssistedSpeed", "ReadFieldWeakening",
     "ReadHallInterpolation", "ReadTorqueGain", "ReadRegister",
     "ReadMotorTorqueMode", "SetLight", "WriteFlash", "CloseFlash"}

C8_WriteWithResponse ==
    {"SetAutoLock", "SetMaxAssistedSpeed", "SetFieldWeakening",
     "SetHallInterpolation", "SetTorqueGain", "SetMotorTorqueMode"}

C8_ModeTable ==
    cmdMode # None =>
        /\ command.variant \in C8_WriteOnly => cmdMode = Some("WriteOnly")
        /\ command.variant \in C8_WriteWithResponse => cmdMode = Some("WriteWithResponse")
        /\ command.variant \in C8_WriteOnly \cup C8_WriteWithResponse

C8_Witness ==
    /\ cmdMode = Some("WriteWithResponse")
    /\ IsVariant(command, "SettingsWriteCmd", "SetFieldWeakening")
    /\ command.value = [weakening |-> 50]

\* the value-carrying variants
C9_SettingsValueVariants ==
    {"SetLight", "SetAutoLock", "SetMaxAssistedSpeed", "SetFieldWeakening",
     "SetHallInterpolation", "SetTorqueGain", "SetMotorTorqueMode", "ReadRegister"}

C9_CarriesValue(c) ==
    \/ c.enum = "SettingsWriteCmd" /\ c.variant \in C9_SettingsValueVariants
    \/ IsVariant(c, "CowboyLockCmd", "SetLock")

\* the number a command's value stands for on the wire (a torque mode is
\* numbered 1 without and 2 with the speed limit)
C9_Value(c) ==
    CASE c.variant \in {"SetLight", "SetAutoLock", "SetLock"} -> bool_as_int(c.value)
      [] c.variant = "SetMaxAssistedSpeed" -> c.value.value
      [] c.variant = "SetFieldWeakening" -> c.value.weakening
      [] c.variant = "SetHallInterpolation" -> c.value.interpolation
      [] c.variant = "SetTorqueGain" -> c.value.gain
      [] c.variant = "SetMotorTorqueMode" -> IF c.value.speed_limit THEN 2 ELSE 1
      [] c.variant = "ReadRegister" -> c.value

\* the same variant carrying its default value
C9_Probe(c) ==
    CASE c.variant \in {"SetLight", "SetAutoLock", "SetLock"} -> [c EXCEPT !.value = FALSE]
      [] c.variant = "SetMaxAssistedSpeed" -> [c EXCEPT !.value = Speed_default]
      [] c.variant = "SetFieldWeakening" -> [c EXCEPT !.value = FieldWeakening_default]
      [] c.variant = "SetHallInterpolation" -> [c EXCEPT !.value = HallInterpolation_default]
      [] c.variant = "SetTorqueGain" -> [c EXCEPT !.value = TorqueGain_default]
      [] c.variant = "SetMotorTorqueMode" -> [c EXCEPT !.value = TorqueMode_default]
      [] c.variant = "ReadRegister" -> [c EXCEPT !.value = 0]

C9_Encode(c) ==
    IF c.enum = "CowboyLockCmd" THEN TryFrom_CowboyLockCmd(c)
    ELSE TryFrom_SettingsWriteCmd(c)

\* C9 as claimed: for every value-carrying variant, SetLock included, packets
\* of the same variant agree on bytes 0..6 and the value sits big-endian in
\* bytes 7..8 (an 8-bit value in byte 8, byte 7 being 0).
C9_ValueOnlyAtOffsets7And8 ==
    (Encoded /\ C9_CarriesValue(command)) =>
        /\ result.tag = "Ok"
        /\ \A i \in 0..6 : result.v[i] = C9_Encode(C9_Probe(command)).v[i]
        /\ result.v[7] * 256 + result.v[8] = C9_Value(command)

\* C9 (amended): for every value-carrying SettingsWriteCmd variant, packets of
\* the same variant agree on bytes 0..6 and the value sits big-endian in bytes
\* 7..8 (an 8-bit value in byte 8, byte 7 being 0); SetLock(b) carries b in
\* byte 0 and zeros in bytes 1..8.
C9_SettingsValueAtOffsets7And8 ==
    (Encoded /\ C9_CarriesValue(command)) =>
        /\ result.tag = "Ok"
        /\ command.enum = "SettingsWriteCmd" =>
               /\ \A i \in 0..6 : result.v[i] = C9_Encode(C9_Probe(command)).v[i]
               /\ result.v[7] * 256 + result.v[8] = C9_Value(command)
        /\ command.enum = "CowboyLockCmd" =>
               /\ result.v[0] = C9_Value(command)
               /\ \A i \in 1..8 : result.v[i] = 0

C9_Witness ==
    /\ Encoded
    /\ IsVariant(command, "SettingsWriteCmd", "ReadRegister")
    /\ command.value = 513
    /\ result.tag = "Ok"
    /\ result.v[3] = 0
    /\ result.v[7] = 2
    /\ result.v[8] = 1

\* C10 as claimed: in every encoded packet byte 1 is 0x03 or 0x10, byte 4 is
\* 0, byte 5 is 1, byte 6 is 2 for function 0x10 and 0 for function 0x03, and
\* bytes 7..8 are zero whenever byte 6 is 0.
C10_FixedLayout ==
    (Encoded /\ result.tag = "Ok") =>
        /\ result.v[1] \in {3, 16}
        /\ result.v[4] = 0
        /\ result.v[5] = 1
        /\ result.v[1] = 16 => result.v[6] = 2
        /\ result.v[1] = 3 => result.v[6] = 0
        /\ result.v[6] = 0 => (result.v[7] = 0 /\ result.v[8] = 0)

\* C12: the value SetFieldWeakening(fw) sends is the raw-scale encoding of
\* fw: for every fw with percentage in 0..100, bytes 7..8 of the packet are
\* fw.weakening_for_bike(), big-endian.
C12_SendsWeakeningForBike ==
    (/\ Encoded
     /\ IsVariant(command, "SettingsWriteCmd", "SetFieldWeakening")
     /\ command.value.weakening <= MAX_FIELD_WEAKENING
     /\ result.tag = "Ok") =>
        result.v[7] * 256 + result.v[8] =
            FieldWeakening_weakening_for_bike(command.value)

\* the dedicated read commands with the register address their templates
\* carry in bytes 2..3
C13_DedicatedReads ==
    << <<129, Unit("SettingsWriteCmd", "ReadFieldWeakening")>>,
       <<128, Unit("SettingsWriteCmd", "ReadHallInterpolation")>>,
       <<179, Unit("SettingsWriteCmd", "ReadTorqueGain")>>,
       <<11, Unit("SettingsWriteCmd", "ReadMotorTorqueMode")>> >>

\* C13: ReadRegister(a) reads register a: for the address a of each
\* dedicated read command, the packet of ReadRegister(a) is byte for byte
\* the packet of that command.
C13_ReadRegisterIsDedicatedRead ==
    (/\ Encoded
     /\ IsVariant(command, "SettingsWriteCmd", "ReadRegister")) =>
        \A k \in 1..Len(C13_DedicatedReads) :
            command.value = C13_DedicatedReads[k][1] =>
                result = TryFrom_SettingsWriteCmd(C13_DedicatedReads[k][2])

(***************************************************************************)
(* The bounded values: from rest the caller constructs a value; a field    *)
(* weakening is then sent to the bike in its raw scale and read back.      *)
(***************************************************************************)
Call(fn, v) == [fn |-> fn, v |-> v]

NewFieldWeakening ==
    /\ arg = None
    /\ \E v \in U8 :
           /\ arg' = Call("FieldWeakening::new", v)
           /\ fw' = FieldWeakening_new(v)
           /\ UNCHANGED <<bike, back, hall, cmdVars, sumVars>>

DefaultFieldWeakening ==
    /\ arg = None
    /\ arg' = Call("FieldWeakening::default", 0)
    /\ fw' = Ok(FieldWeakening_default)
    /\ UNCHANGED <<bike, back, hall, cmdVars, sumVars>>

FieldWeakeningFromBike ==
    /\ arg = None
    /\ \E raw \in U16 :
           /\ arg' = Call("FieldWeakening::new_from_bike", raw)
           /\ fw' = Ok(FieldWeakening_new_from_bike(raw))
           /\ UNCHANGED <<bike, back, hall, cmdVars, sumVars>>

\* the value goes out to the bike in the bike's scale
WeakeningForBike ==
    /\ fw.tag = "Ok"
    /\ bike = None
    /\ bike' = Some(FieldWeakening_weakening_for_bike(fw.v))
    /\ UNCHANGED <<fw, arg, back, hall, cmdVars, sumVars>>

\* and what the bike holds is read back
ReadBackFromBike ==
    /\ bike # None
    /\ back = None
    /\ back' = Some(FieldWeakening_new_from_bike(bike.v))
    /\ UNCHANGED <<fw, arg, bike, hall, cmdVars, sumVars>>

NewHallInterpolation ==
    /\ arg = None
    /\ \E v \in U8 :
           /\ arg' = Call("HallInterpolation::new", v)
           /\ hall' = HallInterpolation_new(v)
           /\ UNCHANGED <<fw, bike, back, cmdVars, sumVars>>

DefaultHallInterpolation ==
    /\ arg = None
    /\ arg' = Call("HallInterpolation::default", 0)
    /\ hall' = Ok(HallInterpolation_default)
    /\ UNCHANGED <<fw, bike, back, cmdVars, sumVars>>

Drop ==
    /\ arg # None
    /\ fw' = None
    /\ arg' = None
    /\ bike' = None
    /\ back' = None
    /\ hall' = None
    /\ UNCHANGED <<cmdVars, sumVars>>

NextTypes ==
    \/ NewFieldWeakening
    \/ DefaultFieldWeakening
    \/ FieldWeakeningFromBike
    \/ WeakeningForBike
    \/ ReadBackFromBike
    \/ NewHallInterpolation
    \/ DefaultHallInterpolation
    \/ Drop

SpecTypes == Init /\ [][NextTypes]_vars

(***************************************************************************)
(* Properties of the bounded values (under SpecTypes)                      *)
(***************************************************************************)
\* C4: the constructors fail closed and never clamp: FieldWeakening::new(v) is
\* InvalidRange{0, 100} for v in 101..=255 and a value with weakening() = v
\* for v in 0..=100; HallInterpolation::new(v) is InvalidRange{0, 25} for v
\* in 26..=255 and a value with interpolation() = v for v in 0..=25.
C4_ConstructorsFailClosed ==
    /\ (arg # None /\ arg.fn = "FieldWeakening::new") =>
           IF arg.v > 100
           THEN fw = Err([error |-> "InvalidRange", start |-> 0, end |-> 100])
           ELSE fw.tag = "Ok" /\ FieldWeakening_weakening(fw.v) = arg.v
    /\ (arg # None /\ arg.fn = "HallInterpolation::new") =>
           IF arg.v > 25
           THEN hall = Err([error |-> "InvalidRange", start |-> 0, end |-> 25])
           ELSE hall.tag = "Ok" /\ HallInterpolation_interpolation(hall.v) = arg.v

C4_Witness ==
    /\ arg = Call("FieldWeakening::new", 101)
    /\ fw.tag = "Err"
    /\ fw.e.end = 100

\* C5: every FieldWeakening obtainable through new, Default or new_from_bike
\* (any u16) has weakening() in 0..100, and every HallInterpolation has
\* interpolation() in 0..25.
C5_BoundedValuesStayInRange ==
    /\ fw.tag = "Ok" => FieldWeakening_weakening(fw.v) \in 0..100
    /\ back # None => FieldWeakening_weakening(back.v) \in 0..100
    /\ hall.tag = "Ok" => HallInterpolation_interpolation(hall.v) \in 0..25

\* C6: for p in 0..=100, reading back what new(p) sends to the bike gives a
\* percentage within 1 of p.
C6_RoundTripWithinOne ==
    (arg # None /\ arg.fn = "FieldWeakening::new" /\ arg.v <= 100 /\ back # None) =>
        /\ FieldWeakening_weakening(back.v) - arg.v <= 1
        /\ arg.v - FieldWeakening_weakening(back.v) <= 1

C6_Witness ==
    /\ arg = Call("FieldWeakening::new", 99)
    /\ bike = Some(4055)
    /\ back = Some([weakening |-> 99])

\* what the bike was sent is the value of a percentage in 0..100
C7_SentPercentage == bike # None /\ fw.tag = "Ok" /\ fw.v.weakening <= 100

\* what was constructed came from a raw value in 0..4096
C7_FromRaw ==
    arg # None /\ arg.fn = "FieldWeakening::new_from_bike" /\ arg.v <= 4096

\* C7 as claimed: weakening_for_bike() of p in 0..=100 is round(p * 40.96),
\* and new_from_bike(raw).weakening() is ceil(raw / 40.96) for raw in
\* 0..=4096 (40.96 = 1024 / 25).
C7_RoundAndCeil ==
    /\ C7_SentPercentage => bike.v = (2048 * fw.v.weakening + 25) \div 50
    /\ C7_FromRaw => fw.v.weakening = (25 * arg.v + 1023) \div 1024

\* C7 (amended): weakening_for_bike() of p in 0..=100 is floor(p * 40.96),
\* and new_from_bike(raw).weakening() is ceil(raw / 40.96) for raw in
\* 0..=4096.
C7_FloorAndCeil ==
    /\ C7_SentPercentage => bike.v = (1024 * fw.v.weakening) \div 25
    /\ C7_FromRaw => fw.v.weakening = (25 * arg.v + 1023) \div 1024

C7_Witness ==
    /\ arg = Call("FieldWeakening::new", 1)
    /\ fw = Ok([weakening |-> 1])
    /\ bike = Some(40)

(***************************************************************************)
(* The checksum on its own: from rest the caller sums a payload, sums the  *)
(* same payload a second time, and then sums it with one bit flipped.      *)
(***************************************************************************)
\* byte values of the payloads that are not instructions of a command
PayloadBytes == {0, 255}

\* the 9-byte arrays handed to checksum: the instructions of the commands
\* with a known checksum, and every array over PayloadBytes
Payloads ==
    {Instruction(C3_Vectors[k][1]) : k \in 1..Len(C3_Vectors)}
        \cup [0..8 -> PayloadBytes]

\* msg with bit i flipped: bit i % 8 of byte i \div 8
flip_bit(msg, i) == [msg EXCEPT ![i \div 8] = BitXor(@, Pow2(i % 8))]

Checksum ==
    /\ payload = None
    /\ \E p \in Payloads :
           /\ payload' = Some(p)
           /\ sumFirst' = Some(checksum(p))
           /\ UNCHANGED <<sumAgain, flip, sumFlip, cmdVars, typeVars>>

ChecksumAgain ==
    /\ payload # None
    /\ sumAgain = None
    /\ sumAgain' = Some(checksum(payload.v))
    /\ UNCHANGED <<payload, sumFirst, flip, sumFlip, cmdVars, typeVars>>

ChecksumFlipped ==
    /\ sumAgain # None
    /\ flip = None
    /\ \E i \in 0..71 :
           /\ flip' = Some(i)
           /\ sumFlip' = Some(checksum(flip_bit(payload.v, i)))
           /\ UNCHANGED <<payload, sumFirst, sumAgain, cmdVars, typeVars>>

Forget ==
    /\ payload # None
    /\ payload' = None
    /\ sumFirst' = None
    /\ sumAgain' = None
    /\ flip' = None
    /\ sumFlip' = None
    /\ UNCHANGED <<cmdVars, typeVars>>

NextSum ==
    \/ Checksum
    \/ ChecksumAgain
    \/ ChecksumFlipped
    \/ Forget

SpecSum == Init /\ [][NextSum]_vars

(***************************************************************************)
(* Claims about the checksum                                               *)
(***************************************************************************)
\* C11: checksum is deterministic and detects every single-bit error: a
\* second call on the same payload returns the same two bytes, and the sum
\* of the payload with any one of its 72 bits flipped differs from the sum
\* of the payload.
C11_SingleBitErrorsDetected ==
    /\ sumAgain # None => sumAgain = sumFirst
    /\ sumFlip # None => sumFlip # sumFirst

C11_Witness ==
    /\ payload = Some([i \in 0..8 |-> 255])
    /\ sumAgain = sumFirst
    /\ flip = Some(71)
    /\ sumFlip # None
    /\ sumFlip # sumFirst
    /\ flip_bit(payload.v, 71)[8] = 127

====
